---- MODULE Spec2Model ----
(***************************************************************************)
(* A model of the arena tree of biodivine-xml-doc: the element store of a  *)
(* Document (src/src/document.rs), the tree mutation API and the namespace *)
(* resolution engine of Element (src/src/element.rs).                      *)
(*                                                                         *)
(* Conventions.  Option<T> is a sequence of length at most one: None is    *)
(* <<>>, Some(x) is <<x>>.  A handle is the 0-based index of its record,   *)
(* so the record of handle h is store[h + 1].  Names and prefixes are      *)
(* sequences of one-character strings, so that splitting at ':' and the    *)
(* byte-wise string order are computed; namespace URLs are only ever       *)
(* compared for equality and tested for emptiness and are TLA+ strings.    *)
(* A HashMap is a function whose DOMAIN is its key set.                     *)
(***************************************************************************)
EXTENDS Integers, Sequences, FiniteSets, TLC

VARIABLES
    counter,   \* Document.counter
    store,     \* Document.store: the sequence of ElementData records
    status,    \* "running", "aborted" (the call panicked or overflowed the stack) or "hung" (the call never returns)
    lastCall,  \* history: the call on record, with its arguments
    result,    \* history: how that call ended (its name if it returned, "panicked", "never") and its value
    pre,       \* history: the Document as it was when that call was made
    docNodes,  \* Document.nodes of src/src/lib.rs: the top-level nodes
    read_opts, \* Document.read_opts of src/src/lib.rs
    input      \* history: what the call on record consumed: the events it read, or the builder

vars == <<counter, store, status, lastCall, result, pre, docNodes, read_opts, input>>

\* the value the call on record returned
ret == result[2]

----------------------------------------------------------------------------
(* Bounds of the model *)

\* at most this many element records besides the container, in the tree specification
MaxElems == 2
\* at most this many leaf nodes in the whole Document, in the tree specification
MaxLeaves == 1
\* at most this many element records besides the container, in the namespace specification
MaxNsElems == 2

----------------------------------------------------------------------------
(* Strings *)

None == <<>>
Some(x) == <<x>>
is_some(o) == Len(o) = 1
unwrap(o) == o[1]

EmptyStr == <<>>
Colon == ":"

\* byte values of the characters the model uses
CharCode(c) ==
    CASE c = ":" -> 58
      [] c = "a" -> 97
      [] c = "b" -> 98
      [] c = "c" -> 99
      [] c = "l" -> 108
      [] c = "m" -> 109
      [] c = "n" -> 110
      [] c = "p" -> 112
      [] c = "q" -> 113
      [] c = "s" -> 115
      [] c = "t" -> 116
      [] c = "x" -> 120

Min(a, b) == IF a < b THEN a ELSE b

\* a < b for str: the byte-wise lexicographic order
StrLess(a, b) ==
    \E i \in 1..(Min(Len(a), Len(b)) + 1) :
        /\ \A j \in 1..(i - 1) : a[j] = b[j]
        /\ \/ i > Len(a) /\ i <= Len(b)
           \/ i <= Len(a) /\ i <= Len(b) /\ CharCode(a[i]) < CharCode(b[i])

\* str::split_once(':'): the position of the first ':' or 0
FirstColon(s) ==
    IF \E i \in 1..Len(s) : s[i] = Colon
    THEN CHOOSE i \in 1..Len(s) : s[i] = Colon /\ \A j \in 1..(i - 1) : s[j] # Colon
    ELSE 0

\* Element::separate_prefix_name: <<prefix, name>>
separate_prefix_name(full_name) ==
    LET i == FirstColon(full_name)
    IN  IF i = 0
        THEN <<EmptyStr, full_name>>
        ELSE <<SubSeq(full_name, 1, i - 1), SubSeq(full_name, i + 1, Len(full_name))>>

\* fixed prefixes and their namespaces
XmlPrefix == <<"x", "m", "l">>
XmlnsPrefix == <<"x", "m", "l", "n", "s">>
XmlNamespace == "http://www.w3.org/XML/1998/namespace"
XmlnsNamespace == "http://www.w3.org/2000/xmlns/"

EmptyMap == [k \in {} |-> ""]

\* HashMap::insert
MapInsert(m, k, v) == [x \in (DOMAIN m) \cup {k} |-> IF x = k THEN v ELSE m[x]]

----------------------------------------------------------------------------
(* Nodes and element records *)

ElementNode(e) == [kind |-> "Element", elem |-> e, text |-> EmptyStr]
Leaf(kind, s) == [kind |-> kind, elem |-> -1, text |-> s]
Text(s) == Leaf("Text", s)

\* Node::as_element
as_element(n) == IF n.kind = "Element" THEN Some(n.elem) ELSE None

ElementData(full_name, attributes, namespace_decls) ==
    [full_name |-> full_name, attributes |-> attributes,
     namespace_decls |-> namespace_decls, parent |-> None, children |-> <<>>]

\* Document::container: the handle of the container
container == 0
is_container(e) == e = 0

\* Document::new
NewDocument ==
    [counter |-> 1, store |-> <<ElementData(EmptyStr, EmptyMap, EmptyMap)>>]

\* the Document of the current state
Doc == [counter |-> counter, store |-> store]

\* Element::data
data(d, e) == d.store[e + 1]
parent(d, e) == data(d, e).parent
has_parent(d, e) == is_some(parent(d, e))
children(d, e) == data(d, e).children
has_children(d, e) == children(d, e) # <<>>
namespace_decls(d, e) == data(d, e).namespace_decls
full_name(d, e) == data(d, e).full_name
prefix(d, e) == separate_prefix_name(full_name(d, e))[1]
name(d, e) == separate_prefix_name(full_name(d, e))[2]

\* the handles the arena has issued
Handles(d) == 0..(Len(d.store) - 1)

----------------------------------------------------------------------------
(* The arena and the tree mutation API.  Every operation is a function of  *)
(* the Document and yields the Document it leaves, what it returns, and    *)
(* whether it panicked.                                                    *)

Outcome(d, r, p) == [doc |-> d, ret |-> r, panic |-> p, hangs |-> FALSE]
\* a call whose loop never ends
Hangs(d) == [doc |-> d, ret |-> "never", panic |-> FALSE, hangs |-> TRUE]

\* Vec::insert and Vec::remove, with 0-based positions
VecInsert(v, index, x) == SubSeq(v, 1, index) \o <<x>> \o SubSeq(v, index + 1, Len(v))
VecRemove(v, index) == SubSeq(v, 1, index) \o SubSeq(v, index + 2, Len(v))

set_parent(d, e, p) == [d EXCEPT !.store[e + 1].parent = p]
set_children(d, e, c) == [d EXCEPT !.store[e + 1].children = c]

\* mutant: the record is pushed but the counter is not advanced
with_data_CounterNotAdvanced(d, fname, attributes, decls) ==
    Outcome([d EXCEPT !.store = Append(@, ElementData(fname, attributes, decls))],
            d.counter, FALSE)

\* Element::with_data: the new handle is the counter, the record is pushed
with_data(d, fname, attributes, decls) ==
    Outcome([d EXCEPT !.counter = @ + 1,
                      !.store = Append(@, ElementData(fname, attributes, decls))],
            d.counter, FALSE)

\* Element::new
new(d, fname) == with_data(d, fname, EmptyMap, EmptyMap)

\* mutant: the parent is overwritten without the HasAParent check
push_child_NoParentCheck(d, self, node) ==
    IF node.kind = "Element" /\ is_container(node.elem)
    THEN Outcome(d, "ContainerCannotMove", FALSE)
    ELSE LET d1 == IF node.kind = "Element" THEN set_parent(d, node.elem, Some(self)) ELSE d
         IN  Outcome(set_children(d1, self, Append(children(d1, self), node)), "Ok", FALSE)

\* Element::push_child
push_child(d, self, node) ==
    IF node.kind = "Element" /\ is_container(node.elem)
    THEN Outcome(d, "ContainerCannotMove", FALSE)
    ELSE IF node.kind = "Element" /\ is_some(data(d, node.elem).parent)
    THEN Outcome(d, "HasAParent", FALSE)
    ELSE LET d1 == IF node.kind = "Element" THEN set_parent(d, node.elem, Some(self)) ELSE d
         IN  Outcome(set_children(d1, self, Append(children(d1, self), node)), "Ok", FALSE)

\* Element::push_to
push_to(d, self, p) == push_child(d, p, ElementNode(self))

\* Document::push_root_node
push_root_node(d, node) == push_child(d, container, node)

\* Document::is_empty
is_empty(d) == Len(d.store) = 1

\* mutant: the node is appended, whatever the index
insert_child_Appends(d, self, index, node) ==
    IF node.kind = "Element" /\ is_container(node.elem)
    THEN Outcome(d, "ContainerCannotMove", FALSE)
    ELSE IF node.kind = "Element" /\ is_some(data(d, node.elem).parent)
    THEN Outcome(d, "HasAParent", FALSE)
    ELSE LET d1 == IF node.kind = "Element" THEN set_parent(d, node.elem, Some(self)) ELSE d
         IN  IF index > Len(children(d1, self))
             THEN Outcome(d1, "panic", TRUE)
             ELSE Outcome(set_children(d1, self, Append(children(d1, self), node)), "Ok", FALSE)

\* Element::insert_child: the parent is written before Vec::insert checks the index
insert_child(d, self, index, node) ==
    IF node.kind = "Element" /\ is_container(node.elem)
    THEN Outcome(d, "ContainerCannotMove", FALSE)
    ELSE IF node.kind = "Element" /\ is_some(data(d, node.elem).parent)
    THEN Outcome(d, "HasAParent", FALSE)
    ELSE LET d1 == IF node.kind = "Element" THEN set_parent(d, node.elem, Some(self)) ELSE d
         IN  IF index > Len(children(d1, self))
             THEN Outcome(d1, "panic", TRUE)
             ELSE Outcome(set_children(d1, self, VecInsert(children(d1, self), index, node)),
                          "Ok", FALSE)

\* mutant: the removed element keeps its parent reference
remove_child_KeepsParent(d, self, index) ==
    IF index >= Len(children(d, self))
    THEN Outcome(d, "panic", TRUE)
    ELSE Outcome(set_children(d, self, VecRemove(children(d, self), index)),
                 children(d, self)[index + 1], FALSE)

\* Element::remove_child: returns the removed Node
remove_child(d, self, index) ==
    IF index >= Len(children(d, self))
    THEN Outcome(d, "panic", TRUE)
    ELSE LET node == children(d, self)[index + 1]
             d1 == set_children(d, self, VecRemove(children(d, self), index))
         IN  Outcome(IF node.kind = "Element" THEN set_parent(d1, node.elem, None) ELSE d1,
                     node, FALSE)

\* mutant: the first child is removed instead of the last
pop_child_RemovesFirst(d, self) ==
    IF children(d, self) = <<>>
    THEN Outcome(d, None, FALSE)
    ELSE LET r == remove_child(d, self, 0) IN Outcome(r.doc, Some(r.ret), FALSE)

\* Element::pop_child: returns Option<Node>
pop_child(d, self) ==
    IF children(d, self) = <<>>
    THEN Outcome(d, None, FALSE)
    ELSE LET node == children(d, self)[Len(children(d, self))]
             d1 == set_children(d, self, SubSeq(children(d, self), 1, Len(children(d, self)) - 1))
         IN  Outcome(IF node.kind = "Element" THEN set_parent(d1, node.elem, None) ELSE d1,
                     Some(node), FALSE)

\* the loop of Element::clear_children: `count` times remove_child(doc, 0)
RECURSIVE clear_loop(_, _, _, _)
clear_loop(d, self, count, removed) ==
    IF count = 0
    THEN Outcome(d, removed, FALSE)
    ELSE LET r == remove_child(d, self, 0)
         IN  IF r.panic THEN r
             ELSE clear_loop(r.doc, self, count - 1, Append(removed, r.ret))

\* Element::clear_children: returns the removed nodes
clear_children(d, self) == clear_loop(d, self, Len(children(d, self)), <<>>)

\* Element::set_text_content
set_text_content(d, self, text) ==
    LET c == clear_children(d, self)
    IN  IF c.panic THEN c
        ELSE LET p == push_child(c.doc, self, Text(text))
             IN  Outcome(p.doc, "unit", p.ret # "Ok")

\* Iterator::position over the children of p: the first child that is Element(e)
position(d, p, e) ==
    LET c == children(d, p)
        hits == {i \in 1..Len(c) : as_element(c[i]) = Some(e)}
    IN  IF hits = {} THEN None
        ELSE Some((CHOOSE i \in hits : \A j \in hits : i <= j) - 1)

\* mutant: the container is not refused
detatch_NoContainerCheck(d, self) ==
    IF is_some(parent(d, self))
    THEN LET p == unwrap(parent(d, self))
             pos == position(d, p, self)
         IN  IF pos = None THEN Outcome(d, "panic", TRUE)
             ELSE Outcome(remove_child(d, p, unwrap(pos)).doc, "Ok", FALSE)
    ELSE Outcome(d, "Ok", FALSE)

\* mutant: the first child of the parent is removed, whichever it is
detatch_RemovesFirstChild(d, self) ==
    IF is_container(self)
    THEN Outcome(d, "ContainerCannotMove", FALSE)
    ELSE IF is_some(parent(d, self))
    THEN LET r == remove_child(d, unwrap(parent(d, self)), 0)
         IN  Outcome(r.doc, IF r.panic THEN "panic" ELSE "Ok", r.panic)
    ELSE Outcome(d, "Ok", FALSE)

\* Element::detatch
detatch(d, self) ==
    IF is_container(self)
    THEN Outcome(d, "ContainerCannotMove", FALSE)
    ELSE IF is_some(parent(d, self))
    THEN LET p == unwrap(parent(d, self))
             pos == position(d, p, self)
         IN  IF pos = None THEN Outcome(d, "panic", TRUE)
             ELSE Outcome(remove_child(d, p, unwrap(pos)).doc, "Ok", FALSE)
    ELSE Outcome(d, "Ok", FALSE)

\* ElementBuilder: Element::build(name) with the chained setters applied
ElementBuilder(fname, attributes, decls, text_content) ==
    [full_name |-> fname, attributes |-> attributes,
     namespace_decls |-> decls, text_content |-> text_content]

\* mutant: an empty text content gives no text child
finish_DropsEmptyText(d, b) ==
    LET w == with_data(d, b.full_name, b.attributes, b.namespace_decls)
    IN  IF is_some(b.text_content) /\ unwrap(b.text_content) # EmptyStr
        THEN LET p == push_child(w.doc, w.ret, Text(unwrap(b.text_content)))
             IN  Outcome(p.doc, w.ret, p.ret # "Ok")
        ELSE w

\* ElementBuilder::finish
finish(d, b) ==
    LET w == with_data(d, b.full_name, b.attributes, b.namespace_decls)
    IN  IF is_some(b.text_content)
        THEN LET p == push_child(w.doc, w.ret, Text(unwrap(b.text_content)))
             IN  Outcome(p.doc, w.ret, p.ret # "Ok")
        ELSE w

\* ElementBuilder::push_to
builder_push_to(d, b, p) ==
    LET f == finish(d, b)
    IN  IF f.panic THEN f
        ELSE LET q == push_to(f.doc, f.ret, p)
             IN  Outcome(q.doc, f.ret, q.ret # "Ok")

----------------------------------------------------------------------------
(* The namespace resolution engine.  A walk up the parent chain is a       *)
(* deterministic loop over the current element, so it never ends exactly   *)
(* if it comes back to an element: after as many steps as there are        *)
(* records without leaving the chain, the loop is known to run forever.    *)
(* The iteration order of a HashMap is an input: `order` lists all keys,   *)
(* and a map is iterated in the order its keys have in that list.          *)

\* the keys of the map m in iteration order
Iter(m, order) == SelectSeq(order, LAMBDA k : k \in DOMAIN m)

\* the loop of Element::namespace_for_prefix
RECURSIVE namespace_for_prefix_loop(_, _, _, _)
namespace_for_prefix_loop(d, elem, pfx, fuel) ==
    IF pfx \in DOMAIN namespace_decls(d, elem)
    THEN Outcome(d, Some(namespace_decls(d, elem)[pfx]), FALSE)
    ELSE IF is_some(parent(d, elem))
    THEN IF fuel = 0 THEN Hangs(d)
         ELSE namespace_for_prefix_loop(d, unwrap(parent(d, elem)), pfx, fuel - 1)
    ELSE IF pfx = EmptyStr
    THEN Outcome(d, Some(""), FALSE)
    ELSE Outcome(d, None, FALSE)

\* mutant: the fixed prefixes are looked up in the declarations like any other
namespace_for_prefix_NoFixedPrefixes(d, self, pfx) ==
    namespace_for_prefix_loop(d, self, pfx, Len(d.store))

\* Element::namespace_for_prefix: returns Option<&str>
namespace_for_prefix(d, self, pfx) ==
    IF pfx = XmlPrefix THEN Outcome(d, Some(XmlNamespace), FALSE)
    ELSE IF pfx = XmlnsPrefix THEN Outcome(d, Some(XmlnsNamespace), FALSE)
    ELSE namespace_for_prefix_loop(d, self, pfx, Len(d.store))

\* Element::namespace
namespace(d, self) == namespace_for_prefix(d, self, prefix(d, self))

\* Element::top_parent: the walk up to the child of the container, or to the top
RECURSIVE top_parent_loop(_, _, _)
top_parent_loop(d, e, fuel) ==
    IF is_some(parent(d, e))
    THEN IF is_container(unwrap(parent(d, e))) THEN Outcome(d, e, FALSE)
         ELSE IF fuel = 0 THEN Hangs(d)
         ELSE top_parent_loop(d, unwrap(parent(d, e)), fuel - 1)
    ELSE Outcome(d, e, FALSE)
top_parent(d, self) == top_parent_loop(d, self, Len(d.store))

\* the for loop of recursion in Element::collect_namespace_prefixes, from the i-th key on
RECURSIVE collect_scan(_, _, _, _, _)
collect_scan(m, keys, i, valid_prefixes, url) ==
    IF i > Len(keys) THEN valid_prefixes
    ELSE collect_scan(m, keys, i + 1,
            IF m[keys[i]] = url THEN valid_prefixes \cup {keys[i]}
            ELSE valid_prefixes \ {keys[i]},
            url)

\* recursion of Element::collect_namespace_prefixes: the parents first, then
\* the declarations of this element; overflow: the recursion never bottoms out
RECURSIVE collect_recursion(_, _, _, _, _, _)
collect_recursion(d, valid_prefixes, element, url, order, fuel) ==
    LET up == IF is_some(parent(d, element))
              THEN IF fuel = 0 THEN [valid |-> valid_prefixes, overflow |-> TRUE]
                   ELSE collect_recursion(d, valid_prefixes, unwrap(parent(d, element)),
                                          url, order, fuel - 1)
              ELSE [valid |-> valid_prefixes, overflow |-> FALSE]
        m == namespace_decls(d, element)
    IN  IF up.overflow THEN up
        ELSE [valid |-> collect_scan(m, Iter(m, order), 1, up.valid, url), overflow |-> FALSE]

\* Element::collect_namespace_prefixes: returns HashSet<&str>
collect_namespace_prefixes(d, self, url, order) ==
    LET r == collect_recursion(d, IF url = "" THEN {EmptyStr} ELSE {}, self, url, order,
                               Len(d.store))
    IN  Outcome(d, r.valid, r.overflow)

\* mutant: every matching prefix replaces the candidate, whatever its order
closest_prefix_scan_NoComparison(m, keys, i, candidate, url) ==
    LET matching == {j \in i..Len(keys) : m[keys[j]] = url}
    IN  IF matching = {} THEN candidate
        ELSE Some(keys[CHOOSE j \in matching : \A k \in matching : k <= j])

\* the for loop of Element::closest_prefix over one element, from the i-th key on
RECURSIVE closest_prefix_scan(_, _, _, _, _)
closest_prefix_scan(m, keys, i, candidate, url) ==
    IF i > Len(keys) THEN candidate
    ELSE closest_prefix_scan(m, keys, i + 1,
            IF m[keys[i]] = url
            THEN IF is_some(candidate)
                 THEN IF StrLess(keys[i], unwrap(candidate)) THEN Some(keys[i]) ELSE candidate
                 ELSE Some(keys[i])
            ELSE candidate,
            url)

\* the loop of Element::closest_prefix
RECURSIVE closest_prefix_loop(_, _, _, _, _)
closest_prefix_loop(d, search, url, order, fuel) ==
    LET m == namespace_decls(d, search)
        candidate == closest_prefix_scan(m, Iter(m, order), 1, None, url)
    IN  IF is_some(candidate) THEN Outcome(d, candidate, FALSE)
        ELSE IF is_some(parent(d, search))
        THEN IF fuel = 0 THEN Hangs(d)
             ELSE closest_prefix_loop(d, unwrap(parent(d, search)), url, order, fuel - 1)
        ELSE IF url = "" THEN Outcome(d, Some(EmptyStr), FALSE)
        ELSE Outcome(d, None, FALSE)

\* Element::closest_prefix: returns Option<&str>
closest_prefix(d, self, url, order) == closest_prefix_loop(d, self, url, order, Len(d.store))

\* Element::set_prefix: the name after the first ':' is kept
set_prefix(d, self, pfx) ==
    LET nm == separate_prefix_name(full_name(d, self))[2]
    IN  [d EXCEPT !.store[self + 1].full_name =
            IF pfx = EmptyStr THEN nm ELSE pfx \o <<Colon>> \o nm]

\* Element::is_quantified (FALSE stands for a call that never returns)
is_quantified(d, self, url) ==
    LET n == namespace(d, self) IN ~n.hangs /\ n.ret = Some(url)

\* mutant: the prefix is cleared when no prefix is found
quantify_with_closest_ClearsPrefix(d, self, url, order) ==
    LET c == closest_prefix(d, self, url, order)
    IN  IF c.hangs THEN c
        ELSE IF is_some(c.ret)
        THEN Outcome(set_prefix(d, self, unwrap(c.ret)), Some(unwrap(c.ret)), FALSE)
        ELSE Outcome(set_prefix(d, self, EmptyStr), None, FALSE)

\* Element::quantify_with_closest: returns Option<String>
quantify_with_closest(d, self, url, order) ==
    LET c == closest_prefix(d, self, url, order)
    IN  IF c.hangs THEN c
        ELSE IF is_some(c.ret)
        THEN Outcome(set_prefix(d, self, unwrap(c.ret)), Some(unwrap(c.ret)), FALSE)
        ELSE Outcome(d, None, FALSE)

\* Element::child_elements: returns Vec<Element>
RECURSIVE child_elements_from(_, _)
child_elements_from(nodes, i) ==
    IF i > Len(nodes) THEN <<>>
    ELSE (IF nodes[i].kind = "Element" THEN <<nodes[i].elem>> ELSE <<>>)
         \o child_elements_from(nodes, i + 1)
child_elements(d, self) == child_elements_from(children(d, self), 1)

\* collect_prefixes in Element::collect_external_namespace_decls: the set of
\* unknown prefixes after the subtree of e; overflow: the recursion comes
\* back to an element and never bottoms out
RECURSIVE collect_prefixes(_, _, _, _, _)
RECURSIVE collect_prefixes_children(_, _, _, _, _, _)
collect_prefixes(d, e, known_prefixes, unknown_prefixes, fuel) ==
    LET my_declarations == namespace_decls(d, e)
        my_prefix == prefix(d, e)
        checked == IF my_prefix \notin known_prefixes
                   THEN unknown_prefixes \cup {my_prefix}
                   ELSE unknown_prefixes
    IN  IF DOMAIN my_declarations = {}
        THEN collect_prefixes_children(d, child_elements(d, e), 1, known_prefixes, checked, fuel)
        ELSE LET my_known_prefixes == known_prefixes \cup DOMAIN my_declarations
             IN  collect_prefixes_children(d, child_elements(d, e), 1, my_known_prefixes,
                                           checked, fuel)
collect_prefixes_children(d, elems, i, known_prefixes, unknown_prefixes, fuel) ==
    IF i > Len(elems) THEN [unknown |-> unknown_prefixes, overflow |-> FALSE]
    ELSE IF fuel = 0 THEN [unknown |-> unknown_prefixes, overflow |-> TRUE]
    ELSE LET r == collect_prefixes(d, elems[i], known_prefixes, unknown_prefixes, fuel - 1)
         IN  IF r.overflow THEN r
             ELSE collect_prefixes_children(d, elems, i + 1, known_prefixes, r.unknown, fuel)

\* Element::collect_external_namespace_decls: returns HashMap<String, String>.
\* Every unknown prefix is resolved from the same element, so the calls of
\* namespace_for_prefix either all return or, on a chain that never ends,
\* return only for the declared prefixes: the order of the prefixes does
\* not decide between the panic and the loop.
collect_external_namespace_decls(d, self) ==
    LET c == collect_prefixes(d, self, {}, {}, Len(d.store))
        resolved == [pfx \in c.unknown |-> namespace_for_prefix(d, self, pfx)]
    IN  IF c.overflow THEN Outcome(d, "panic", TRUE)
        ELSE IF \E pfx \in c.unknown : resolved[pfx].hangs THEN Hangs(d)
        ELSE IF \E pfx \in c.unknown : resolved[pfx].ret = None THEN Outcome(d, "panic", TRUE)
        ELSE Outcome(d, [pfx \in c.unknown |-> unwrap(resolved[pfx].ret)], FALSE)

\* mutant: a declaration of an ancestor replaces the one already collected
applicable_scan_Overwrites(m, keys, i, collected) ==
    [pfx \in DOMAIN collected \cup {keys[j] : j \in i..Len(keys)} |->
        IF \E j \in i..Len(keys) : keys[j] = pfx THEN m[pfx] ELSE collected[pfx]]

\* the for loop of Element::collect_applicable_namespace_decls, from the i-th key on
RECURSIVE applicable_scan(_, _, _, _)
applicable_scan(m, keys, i, collected) ==
    IF i > Len(keys) THEN collected
    ELSE applicable_scan(m, keys, i + 1,
            IF keys[i] \notin DOMAIN collected
            THEN MapInsert(collected, keys[i], m[keys[i]])
            ELSE collected)

\* the while loop of Element::collect_applicable_namespace_decls
RECURSIVE applicable_loop(_, _, _, _, _)
applicable_loop(d, e, collected, order, fuel) ==
    IF is_some(parent(d, e))
    THEN IF fuel = 0 THEN Hangs(d)
         ELSE LET up == unwrap(parent(d, e))
                  m == namespace_decls(d, up)
              IN  applicable_loop(d, up, applicable_scan(m, Iter(m, order), 1, collected),
                                  order, fuel - 1)
    ELSE Outcome(d, collected, FALSE)

\* Element::collect_applicable_namespace_decls: returns HashMap<String, String>
collect_applicable_namespace_decls(d, self, order) ==
    applicable_loop(d, self, namespace_decls(d, self), order, Len(d.store))

\* Element::has_self_declared_namespace
has_self_declared_namespace(d, self, pfx, url) ==
    IF pfx \in DOMAIN namespace_decls(d, self)
    THEN url = namespace_decls(d, self)[pfx]
    ELSE FALSE

\* the for loop of Element::find_quantified, from the i-th child element on
RECURSIVE find_quantified_loop(_, _, _, _, _, _)
find_quantified_loop(d, elems, i, nm, url, admissible_prefix) ==
    IF i > Len(elems) THEN None
    ELSE LET child == elems[i]
             child_prefix == separate_prefix_name(full_name(d, child))[1]
             child_name == separate_prefix_name(full_name(d, child))[2]
         IN  IF nm # child_name
             THEN find_quantified_loop(d, elems, i + 1, nm, url, admissible_prefix)
             ELSE IF child_prefix \in admissible_prefix THEN Some(child)
             ELSE IF has_self_declared_namespace(d, child, child_prefix, url) THEN Some(child)
             ELSE find_quantified_loop(d, elems, i + 1, nm, url, admissible_prefix)

\* Element::find_quantified: returns Option<Element>
find_quantified(d, self, nm, url, order) ==
    LET a == collect_namespace_prefixes(d, self, url, order)
    IN  IF a.panic THEN a
        ELSE Outcome(d, find_quantified_loop(d, child_elements(d, self), 1, nm, url, a.ret),
                     FALSE)

\* the for loop of Element::find_all_quantified, from the i-th child element on
RECURSIVE find_all_quantified_loop(_, _, _, _, _, _, _)
find_all_quantified_loop(d, elems, i, nm, url, admissible_prefix, found) ==
    IF i > Len(elems) THEN found
    ELSE LET child == elems[i]
             child_prefix == separate_prefix_name(full_name(d, child))[1]
             child_name == separate_prefix_name(full_name(d, child))[2]
             first == IF child_prefix \in admissible_prefix
                      THEN Append(found, child) ELSE found
             second == IF has_self_declared_namespace(d, child, child_prefix, url)
                       THEN Append(first, child) ELSE first
         IN  IF nm # child_name
             THEN find_all_quantified_loop(d, elems, i + 1, nm, url, admissible_prefix, found)
             ELSE find_all_quantified_loop(d, elems, i + 1, nm, url, admissible_prefix, second)

\* Element::find_all_quantified: returns Vec<Element>
find_all_quantified(d, self, nm, url, order) ==
    LET a == collect_namespace_prefixes(d, self, url, order)
    IN  IF a.panic THEN a
        ELSE Outcome(d, find_all_quantified_loop(d, child_elements(d, self), 1, nm, url,
                                                 a.ret, <<>>),
                     FALSE)

----------------------------------------------------------------------------
(* The state machine of the tree mutation API *)

NoNode == Leaf("None", EmptyStr)

\* the record of a call: the operation and its arguments (-1, NoNode, EmptyStr, "" where unused)
Call(op, self, node, index, str, url) ==
    [op |-> op, self |-> self, node |-> node, index |-> index, str |-> str, url |-> url]

\* no call is on record
Unobserved == Call("-", -1, NoNode, -1, EmptyStr, "")

\* the program runs and no call is on record yet
Live == status = "running" /\ lastCall = Unobserved

\* One call: the Document becomes the one the operation leaves.  A behaviour
\* puts at most one call on record, the call under observation, and ends with
\* it; the calls before it run unrecorded.  Every call from every reachable
\* Document is therefore on record in some state.
Apply(call, o) ==
    /\ counter' = o.doc.counter
    /\ store' = o.doc.store
    /\ status' = IF o.hangs THEN "hung" ELSE IF o.panic THEN "aborted" ELSE "running"
    /\ \/ /\ lastCall' = call
          /\ result' = <<IF o.hangs THEN "never" ELSE IF o.panic THEN "panicked" ELSE call.op,
                         o.ret>>
          /\ pre' = Doc
       \/ UNCHANGED <<lastCall, result, pre>>
    /\ UNCHANGED <<docNodes, read_opts, input>>

\* a call that is put on record: the behaviour ends with it
Observe(call, o) == Apply(call, o) /\ lastCall' = call

\* the inputs of the tree specification
TreeNames == {<<"a">>}
TextContents == {<<"t">>}
BuilderTexts == {None, Some(EmptyStr), Some(<<"t">>)}
BuilderAttributes == {EmptyMap, MapInsert(EmptyMap, <<"c">>, "1")}
BuilderDecls == {EmptyMap, MapInsert(EmptyMap, <<"p">>, "u")}
TreeBuilders ==
    {ElementBuilder(fname, a, n, t) :
        fname \in TreeNames, a \in BuilderAttributes, n \in BuilderDecls, t \in BuilderTexts}
Nodes == {ElementNode(e) : e \in Handles(Doc)} \cup {Text(t) : t \in TextContents}

Init ==
    /\ counter = NewDocument.counter
    /\ store = NewDocument.store
    /\ status = "running"
    /\ lastCall = Unobserved
    /\ result = <<"-", "-">>
    /\ pre = NewDocument
    /\ docNodes = <<>>
    /\ read_opts = [empty_text_node |-> TRUE]
    /\ input = <<>>

CanAllocate == Len(store) - 1 < MaxElems
\* the leaf nodes of the children of e, as positions
LeavesOf(d, e) == {i \in 1..Len(children(d, e)) : children(d, e)[i].kind # "Element"}
RECURSIVE LeafCountFrom(_, _)
LeafCountFrom(d, e) ==
    IF e >= Len(d.store) THEN 0 ELSE Cardinality(LeavesOf(d, e)) + LeafCountFrom(d, e + 1)
LeafCount(d) == LeafCountFrom(d, 0)
\* the Document has room for this node
CanTake(node) == node.kind = "Element" \/ LeafCount(Doc) < MaxLeaves

NewElement ==
    /\ Live
    /\ \E fname \in TreeNames :
        /\ CanAllocate
        /\ Apply(Call("new", -1, NoNode, -1, fname, ""), new(Doc, fname))

\* One call that consumes the builder b: as Apply, with the builder on record.
\* A builder with attributes or declarations is used for the call on record only.
ApplyBuilder(call, o, b) ==
    /\ counter' = o.doc.counter
    /\ store' = o.doc.store
    /\ status' = IF o.panic THEN "aborted" ELSE "running"
    /\ \/ /\ lastCall' = call
          /\ result' = <<IF o.panic THEN "panicked" ELSE call.op, o.ret>>
          /\ pre' = Doc
          /\ input' = <<b>>
       \/ /\ b.attributes = EmptyMap
          /\ b.namespace_decls = EmptyMap
          /\ UNCHANGED <<lastCall, result, pre, input>>
    /\ UNCHANGED <<docNodes, read_opts>>

BuilderFinish ==
    /\ Live
    /\ \E b \in TreeBuilders :
        /\ CanAllocate
        /\ is_some(b.text_content) => LeafCount(Doc) < MaxLeaves
        /\ ApplyBuilder(Call("finish", -1,
                              IF is_some(b.text_content) THEN Text(unwrap(b.text_content)) ELSE NoNode,
                              -1, b.full_name, ""),
                         finish(Doc, b), b)

BuilderPushTo ==
    /\ Live
    /\ \E b \in TreeBuilders, p \in Handles(Doc) :
        /\ CanAllocate
        /\ is_some(b.text_content) => LeafCount(Doc) < MaxLeaves
        /\ ApplyBuilder(Call("builder_push_to", p,
                              IF is_some(b.text_content) THEN Text(unwrap(b.text_content)) ELSE NoNode,
                              -1, b.full_name, ""),
                         builder_push_to(Doc, b, p), b)

PushChild ==
    /\ Live
    /\ \E self \in Handles(Doc), node \in Nodes :
        /\ CanTake(node)
        /\ Apply(Call("push_child", self, node, -1, EmptyStr, ""), push_child(Doc, self, node))

PushTo ==
    /\ Live
    /\ \E self \in Handles(Doc), p \in Handles(Doc) :
        /\ Apply(Call("push_to", p, ElementNode(self), -1, EmptyStr, ""), push_to(Doc, self, p))

PushRootNode ==
    /\ Live
    /\ \E node \in Nodes :
        /\ CanTake(node)
        /\ Apply(Call("push_root_node", container, node, -1, EmptyStr, ""),
                 push_root_node(Doc, node))

InsertChild ==
    /\ Live
    /\ \E self \in Handles(Doc), node \in Nodes :
        \E index \in 0..(Len(children(Doc, self)) + 1) :
            /\ CanTake(node)
            /\ Apply(Call("insert_child", self, node, index, EmptyStr, ""),
                     insert_child(Doc, self, index, node))

RemoveChild ==
    /\ Live
    /\ \E self \in Handles(Doc) :
        \E index \in 0..Len(children(Doc, self)) :
            Apply(Call("remove_child", self, NoNode, index, EmptyStr, ""),
                  remove_child(Doc, self, index))

PopChild ==
    /\ Live
    /\ \E self \in Handles(Doc) :
        Apply(Call("pop_child", self, NoNode, -1, EmptyStr, ""), pop_child(Doc, self))

ClearChildren ==
    /\ Live
    /\ \E self \in Handles(Doc) :
        Apply(Call("clear_children", self, NoNode, -1, EmptyStr, ""), clear_children(Doc, self))

Detatch ==
    /\ Live
    /\ \E self \in Handles(Doc) :
        Apply(Call("detatch", self, NoNode, -1, EmptyStr, ""), detatch(Doc, self))

SetTextContent ==
    /\ Live
    /\ \E self \in Handles(Doc), t \in TextContents :
        /\ LeafCount(Doc) - Cardinality(LeavesOf(Doc, self)) < MaxLeaves
        /\ Apply(Call("set_text_content", self, Text(t), -1, EmptyStr, ""),
                 set_text_content(Doc, self, t))

IsEmpty ==
    /\ Live
    /\ Observe(Call("is_empty", -1, NoNode, -1, EmptyStr, ""), Outcome(Doc, is_empty(Doc), FALSE))

Next ==
    \/ NewElement
    \/ BuilderFinish
    \/ BuilderPushTo
    \/ PushChild
    \/ PushTo
    \/ PushRootNode
    \/ InsertChild
    \/ RemoveChild
    \/ PopChild
    \/ ClearChildren
    \/ Detatch
    \/ SetTextContent
    \/ IsEmpty

Spec == Init /\ [][Next]_vars

----------------------------------------------------------------------------
(* Claims about the tree mutation API, under Spec *)

AttachOps == {"push_child", "push_to", "insert_child"}
AllocOps == {"new", "finish", "builder_push_to"}

\* how often Node::Element(e) occurs among the children of p
Occurrences(d, p, e) ==
    Cardinality({i \in 1..Len(children(d, p)) : children(d, p)[i] = ElementNode(e)})

Duality(d) ==
    \A e \in Handles(d), p \in Handles(d) :
        Occurrences(d, p, e) = IF parent(d, e) = Some(p) THEN 1 ELSE 0

C2_HasAParentLeavesDocument ==
    (/\ lastCall.op \in AttachOps
     /\ lastCall.node.kind = "Element"
     /\ has_parent(pre, lastCall.node.elem))
    => (ret = "HasAParent" /\ status = "running" /\ Doc = pre)

\* an element that is a child of one element was inserted into another, at a valid index
C2_Witness ==
    /\ lastCall.op = "insert_child"
    /\ lastCall.node.kind = "Element"
    /\ has_parent(pre, lastCall.node.elem)
    /\ parent(pre, lastCall.node.elem) # Some(lastCall.self)
    /\ lastCall.index <= Len(children(pre, lastCall.self))
    /\ ret = "HasAParent"

\* the k-th ancestor of e, if the parent chain is that long
RECURSIVE AncestorAt(_, _, _)
AncestorAt(d, e, k) ==
    IF k = 0 THEN Some(e)
    ELSE IF parent(d, e) = None THEN None
    ELSE AncestorAt(d, unwrap(parent(d, e)), k - 1)

\* e is reached from itself by following parent references
OnCycle(d, e) == \E k \in 1..Len(d.store) : AncestorAt(d, e, k) = Some(e)

\* e is reached from itself by descending through children sequences
RECURSIVE DescendantsWithin(_, _, _)
DescendantsWithin(d, es, k) ==
    IF k = 0 THEN es
    ELSE DescendantsWithin(d,
            es \cup {c \in Handles(d) : \E q \in es : Occurrences(d, q, c) > 0}, k - 1)
OwnDescendant(d, e) ==
    e \in DescendantsWithin(d, {c \in Handles(d) : Occurrences(d, e, c) > 0}, Len(d.store))

\* C3: in every state the mutation API reaches no element is reached from
\* itself by following parent references, and no element is its own descendant.
C3_Acyclic ==
    status = "running" =>
        \A e \in Handles(Doc) : ~OnCycle(Doc, e) /\ ~OwnDescendant(Doc, e)

\* C4: the container never has a parent; attaching the container returns
\* ContainerCannotMove, detatch of the container returns ContainerCannotMove,
\* and each of these calls leaves the Document as it was.
C4_ContainerImmutable ==
    /\ parent(Doc, container) = None
    /\ (lastCall.op \in AttachOps \cup {"push_root_node"} /\ lastCall.node = ElementNode(container))
        => (ret = "ContainerCannotMove" /\ status = "running" /\ Doc = pre)
    /\ (lastCall.op = "detatch" /\ lastCall.self = container)
        => (ret = "ContainerCannotMove" /\ status = "running" /\ Doc = pre)

\* the container, holding a child, was pushed into an element
C4_Witness ==
    /\ lastCall.op = "push_child"
    /\ lastCall.node = ElementNode(container)
    /\ lastCall.self # container
    /\ children(pre, container) # <<>>
    /\ ret = "ContainerCannotMove"

\* the records of pre are the first records of d, with the same name, attributes and declarations
KeepsRecords(d) ==
    /\ Len(d.store) >= Len(pre.store)
    /\ \A h \in Handles(pre) :
        /\ full_name(d, h) = full_name(pre, h)
        /\ data(d, h).attributes = data(pre, h).attributes
        /\ namespace_decls(d, h) = namespace_decls(pre, h)

\* C5: an allocation appends exactly one record and returns the handle equal
\* to the number of records before the call, which is not 0 and is no handle
\* issued earlier; no other operation adds, removes or reuses a record; the
\* counter is the number of records.
C5_NoReclamation ==
    /\ counter = Len(store)
    /\ lastCall.op \in AllocOps =>
        /\ ret = Len(pre.store)
        /\ ret # 0
        /\ ret \notin Handles(pre)
        /\ Len(store) = Len(pre.store) + 1
        /\ KeepsRecords(Doc)
    /\ (lastCall # Unobserved /\ lastCall.op \notin AllocOps) =>
        /\ Len(store) = Len(pre.store)
        /\ KeepsRecords(Doc)

\* an element was allocated after another one had been removed from its parent
C5_Witness ==
    /\ lastCall.op = "new"
    /\ ret = 2
    /\ parent(pre, 1) = None
    /\ parent(Doc, 1) = None
    /\ parent(Doc, 2) = None

\* v without the element at 0-based position i
Without(v, i) == [j \in 1..(Len(v) - 1) |-> IF j <= i THEN v[j] ELSE v[j + 1]]

\* every element among the nodes has no parent in d
Orphaned(d, nodes) ==
    \A i \in 1..Len(nodes) : nodes[i].kind = "Element" => parent(d, nodes[i].elem) = None

\* C6: remove_child(parent, i) with i < len removes and returns the node at
\* i; pop_child removes and returns the last node, None on an empty
\* sequence; clear_children removes every child and returns them in their
\* order; the remaining children keep their order and every removed element
\* has no parent afterwards.
C6_Removal ==
    LET c == children(pre, lastCall.self)
        after == children(Doc, lastCall.self)
    IN  /\ (lastCall.op = "remove_child" /\ lastCall.index < Len(c)) =>
            /\ status = "running"
            /\ ret = c[lastCall.index + 1]
            /\ after = Without(c, lastCall.index)
            /\ Orphaned(Doc, <<ret>>)
        /\ (lastCall.op = "pop_child" /\ c = <<>>) =>
            (ret = None /\ Doc = pre /\ status = "running")
        /\ (lastCall.op = "pop_child" /\ c # <<>>) =>
            /\ status = "running"
            /\ ret = Some(c[Len(c)])
            /\ after = Without(c, Len(c) - 1)
            /\ Orphaned(Doc, ret)
        /\ lastCall.op = "clear_children" =>
            /\ status = "running"
            /\ ret = c
            /\ after = <<>>
            /\ Orphaned(Doc, ret)

\* two children, an element among them, were cleared
C6_Witness ==
    /\ lastCall.op = "clear_children"
    /\ Len(ret) = 2
    /\ \E i \in 1..2 : ret[i].kind = "Element"
    /\ ret[1] # ret[2]

\* C7: detatch of an element other than the container removes it from the
\* children of its parent and clears its parent; on an element without a
\* parent it returns Ok and changes nothing; a second detatch returns Ok
\* and leaves the Document as the first one left it.
C7_Detatch ==
    (lastCall.op = "detatch" /\ lastCall.self # container) =>
        LET e == lastCall.self IN
        /\ ret = "Ok"
        /\ status = "running"
        /\ parent(Doc, e) = None
        /\ \A q \in Handles(Doc) : Occurrences(Doc, q, e) = 0
        /\ parent(pre, e) = None => Doc = pre
        /\ parent(pre, e) # None =>
            LET p == unwrap(parent(pre, e))
                c == children(pre, p)
            IN  /\ \E i \in 0..(Len(c) - 1) :
                     c[i + 1] = ElementNode(e) /\ children(Doc, p) = Without(c, i)
                /\ \A h \in Handles(Doc) \ {e, p} : data(Doc, h) = data(pre, h)
        /\ detatch(Doc, e) = Outcome(Doc, "Ok", FALSE)

\* an element that was not the first child of its parent was detached
C7_Witness ==
    /\ lastCall.op = "detatch"
    /\ ret = "Ok"
    /\ parent(pre, lastCall.self) # None
    /\ children(pre, unwrap(parent(pre, lastCall.self)))[1] # ElementNode(lastCall.self)
    /\ unwrap(parent(pre, lastCall.self)) # container

----------------------------------------------------------------------------
(* The state machine of the namespace engine: documents are built with the *)
(* ElementBuilder and Element::push_to, and the queries are called on them *)

Decls(ps, us) == [i \in {ps[j] : j \in 1..Len(ps)} |-> us[CHOOSE j \in 1..Len(ps) : ps[j] = i]]

\* the declarations an element is built with
NsDecls ==
    { EmptyMap,
      Decls(<<EmptyStr, <<"p">>>>, <<"u", "u">>),
      Decls(<<<<"p">>, XmlPrefix>>, <<"v", "v">>),
      Decls(<<EmptyStr>>, <<"">>) }
NsNames == {<<"a">>}

\* the prefixes and URLs the queries are called with
QueryPrefixes == {EmptyStr, <<"p">>, <<"q">>, XmlPrefix, XmlnsPrefix}
QueryUrls == {"", "u", "v", XmlNamespace, XmlnsNamespace}

\* the iteration orders of a HashMap: the arrangements of all declared keys
DeclaredKeys == UNION {DOMAIN m : m \in NsDecls}
Orders ==
    {o \in [1..Cardinality(DeclaredKeys) -> DeclaredKeys] :
        \A k \in DeclaredKeys : \E i \in DOMAIN o : o[i] = k}

NsCanAllocate == Len(store) - 1 < MaxNsElems

NsBuilderFinish ==
    /\ Live
    /\ \E fname \in NsNames, m \in NsDecls :
        /\ NsCanAllocate
        /\ Apply(Call("finish", -1, NoNode, -1, fname, ""),
                 finish(Doc, ElementBuilder(fname, EmptyMap, m, None)))

NsBuilderPushTo ==
    /\ Live
    /\ \E fname \in NsNames, m \in NsDecls, p \in Handles(Doc) :
        /\ NsCanAllocate
        /\ Apply(Call("builder_push_to", p, NoNode, -1, fname, ""),
                 builder_push_to(Doc, ElementBuilder(fname, EmptyMap, m, None), p))

NamespaceForPrefix ==
    /\ Live
    /\ \E self \in Handles(Doc), pfx \in QueryPrefixes :
        Apply(Call("namespace_for_prefix", self, NoNode, -1, pfx, ""),
              namespace_for_prefix(Doc, self, pfx))

CollectNamespacePrefixes ==
    /\ Live
    /\ \E self \in Handles(Doc), url \in QueryUrls, order \in Orders :
        Apply(Call("collect_namespace_prefixes", self, NoNode, -1, EmptyStr, url),
              collect_namespace_prefixes(Doc, self, url, order))

ClosestPrefix ==
    /\ Live
    /\ \E self \in Handles(Doc), url \in QueryUrls, order \in Orders :
        Apply(Call("closest_prefix", self, NoNode, -1, EmptyStr, url),
              closest_prefix(Doc, self, url, order))

ApplicableNamespaceDecls ==
    /\ Live
    /\ \E self \in Handles(Doc), order \in Orders :
        Observe(Call("collect_applicable_namespace_decls", self, NoNode, -1, EmptyStr, ""),
                collect_applicable_namespace_decls(Doc, self, order))

TopParent ==
    /\ Live
    /\ \E self \in Handles(Doc) :
        Observe(Call("top_parent", self, NoNode, -1, EmptyStr, ""), top_parent(Doc, self))

NextNs ==
    \/ NsBuilderFinish
    \/ NsBuilderPushTo
    \/ PushTo
    \/ NamespaceForPrefix
    \/ CollectNamespacePrefixes
    \/ ClosestPrefix
    \/ ApplicableNamespaceDecls
    \/ TopParent

SpecNs == Init /\ [][NextNs]_vars

----------------------------------------------------------------------------
(* Claims about the namespace engine, under SpecNs *)

\* the parent chain of e ends: some ancestor has no parent
ChainEnds(d, e) == AncestorAt(d, e, Len(d.store)) = None

\* the element k steps up the parent chain of e
Ancestor(d, e, k) == unwrap(AncestorAt(d, e, k))

\* the distances at which the parent chain of e holds an element satisfying Q
Distances(d, e, Q(_)) ==
    {k \in 0..(Len(d.store) - 1) : AncestorAt(d, e, k) # None /\ Q(Ancestor(d, e, k))}

Nearest(ks) == CHOOSE k \in ks : \A j \in ks : k <= j

\* the reference resolution of a prefix at e
Resolution(d, e, pfx) ==
    LET ks == Distances(d, e, LAMBDA a : pfx \in DOMAIN namespace_decls(d, a))
    IN  IF pfx = XmlPrefix THEN Some(XmlNamespace)
        ELSE IF pfx = XmlnsPrefix THEN Some(XmlnsNamespace)
        ELSE IF ks # {} THEN Some(namespace_decls(d, Ancestor(d, e, Nearest(ks)))[pfx])
        ELSE IF pfx = EmptyStr THEN Some("")
        ELSE None

\* C8: namespace_for_prefix(e, p) is the fixed namespace for xml and xmlns,
\* whatever is declared; otherwise the URL p is declared with on the nearest
\* element of the parent chain from e that declares it; if none does, the
\* empty string for the empty prefix and None for any other.  The call
\* returns whenever the parent chain of e ends, and changes nothing.
C8_NamespaceForPrefix ==
    lastCall.op = "namespace_for_prefix" =>
        /\ ChainEnds(pre, lastCall.self) => status = "running"
        /\ status = "running" => ret = Resolution(pre, lastCall.self, lastCall.str)
        /\ status # "aborted"
        /\ Doc = pre

\* p was resolved at an element that redeclares it, below a parent that
\* declares it with another URL, in a document that declares xml
C8_Witness ==
    /\ lastCall.op = "namespace_for_prefix"
    /\ lastCall.str = <<"p">>
    /\ is_some(parent(pre, lastCall.self))
    /\ unwrap(parent(pre, lastCall.self)) # lastCall.self
    /\ <<"p">> \in DOMAIN namespace_decls(pre, unwrap(parent(pre, lastCall.self)))
    /\ namespace_decls(pre, unwrap(parent(pre, lastCall.self)))[<<"p">>] = "u"
    /\ XmlPrefix \in DOMAIN namespace_decls(pre, lastCall.self)
    /\ ret = Some("v")

\* the prefixes a document can resolve: the declared ones, the empty one and the fixed ones
KnownPrefixes == DeclaredKeys \cup {EmptyStr, XmlPrefix, XmlnsPrefix}

\* C9: a prefix is in collect_namespace_prefixes(e, url) exactly if
\* namespace_for_prefix(e, prefix) is url, for every declared prefix, the
\* empty prefix and the fixed prefixes xml and xmlns.
C9_CollectMatchesResolution ==
    (lastCall.op = "collect_namespace_prefixes" /\ status = "running") =>
        \A pfx \in KnownPrefixes :
            pfx \in ret <=>
                namespace_for_prefix(pre, lastCall.self, pfx).ret = Some(lastCall.url)

\* the prefixes that map to url among the declarations of a
Matching(d, a, url) ==
    {pfx \in DOMAIN namespace_decls(d, a) : namespace_decls(d, a)[pfx] = url}

Smallest(S) == CHOOSE x \in S : \A y \in S \ {x} : StrLess(x, y)

\* the reference result of closest_prefix
Closest(d, e, url) ==
    LET ks == Distances(d, e, LAMBDA a : Matching(d, a, url) # {})
    IN  IF ks # {} THEN Some(Smallest(Matching(d, Ancestor(d, e, Nearest(ks)), url)))
        ELSE IF url = "" THEN Some(EmptyStr)
        ELSE None

----------------------------------------------------------------------------
(* The state machine of namespace use: documents of elements with prefixed *)
(* names, built with the ElementBuilder and Element::push_to, on which the *)
(* operations that relate element names to declarations are called        *)

\* at most this many element records besides the container, in this specification
MaxPfxElems == 2

\* the elements that are built: their names and declarations
PfxBuilders ==
    { ElementBuilder(<<"a">>, EmptyMap, EmptyMap, None),
      ElementBuilder(<<"b">>, EmptyMap, EmptyMap, None),
      ElementBuilder(<<"p", ":", "a">>, EmptyMap, EmptyMap, None),
      ElementBuilder(<<"a">>, EmptyMap, Decls(<<EmptyStr>>, <<"u">>), None),
      ElementBuilder(<<"a">>, EmptyMap, Decls(<<<<"p">>, EmptyStr>>, <<"u", "v">>), None),
      ElementBuilder(<<"p", ":", "a">>, EmptyMap, Decls(<<<<"p">>>>, <<"v">>), None) }

\* the URLs and local names the operations are called with
PfxUrls == {"", "u", "v"}
LocalNames == {<<"a">>, <<"b">>}

\* the iteration orders of a HashMap over the keys declared here
PfxKeys == UNION {DOMAIN b.namespace_decls : b \in PfxBuilders}
PfxOrders ==
    {o \in [1..Cardinality(PfxKeys) -> PfxKeys] :
        \A k \in PfxKeys : \E i \in DOMAIN o : o[i] = k}

PfxCanAllocate == Len(store) - 1 < MaxPfxElems

PfxBuilderFinish ==
    /\ Live
    /\ \E b \in PfxBuilders :
        /\ PfxCanAllocate
        /\ Apply(Call("finish", -1, NoNode, -1, b.full_name, ""), finish(Doc, b))

PfxBuilderPushTo ==
    /\ Live
    /\ \E b \in PfxBuilders, p \in Handles(Doc) :
        /\ PfxCanAllocate
        /\ Apply(Call("builder_push_to", p, NoNode, -1, b.full_name, ""),
                 builder_push_to(Doc, b, p))

\* the documents are built before the element is renamed: this call is
\* always the one on record
QuantifyWithClosest ==
    /\ Live
    /\ \E self \in Handles(Doc), url \in PfxUrls, order \in PfxOrders :
        Observe(Call("quantify_with_closest", self, NoNode, -1, EmptyStr, url),
                quantify_with_closest(Doc, self, url, order))

CollectExternalNamespaceDecls ==
    /\ Live
    /\ \E self \in Handles(Doc) :
        Apply(Call("collect_external_namespace_decls", self, NoNode, -1, EmptyStr, ""),
              collect_external_namespace_decls(Doc, self))

CollectApplicableNamespaceDecls ==
    /\ Live
    /\ \E self \in Handles(Doc), order \in PfxOrders :
        Apply(Call("collect_applicable_namespace_decls", self, NoNode, -1, EmptyStr, ""),
              collect_applicable_namespace_decls(Doc, self, order))

FindQuantified ==
    /\ Live
    /\ \E self \in Handles(Doc), nm \in LocalNames, url \in PfxUrls, order \in PfxOrders :
        Apply(Call("find_quantified", self, NoNode, -1, nm, url),
              find_quantified(Doc, self, nm, url, order))

FindAllQuantified ==
    /\ Live
    /\ \E self \in Handles(Doc), nm \in LocalNames, url \in PfxUrls, order \in PfxOrders :
        Apply(Call("find_all_quantified", self, NoNode, -1, nm, url),
              find_all_quantified(Doc, self, nm, url, order))

NextPfx ==
    \/ PfxBuilderFinish
    \/ PfxBuilderPushTo
    \/ PushTo
    \/ QuantifyWithClosest
    \/ CollectExternalNamespaceDecls
    \/ CollectApplicableNamespaceDecls
    \/ FindQuantified
    \/ FindAllQuantified

SpecPfx == Init /\ [][NextPfx]_vars

----------------------------------------------------------------------------
(* Claims about namespace use, under SpecPfx *)

\* C11: whenever quantify_with_closest(e, url) returns Some(p), afterwards
\* the prefix of e is p, the local name of e is what it was, and e is
\* quantified by url: namespace(e) is url.
C11_QuantifyEnsuresNamespace ==
    (lastCall.op = "quantify_with_closest" /\ status = "running" /\ is_some(ret)) =>
        /\ prefix(Doc, lastCall.self) = unwrap(ret)
        /\ name(Doc, lastCall.self) = name(pre, lastCall.self)
        /\ is_quantified(Doc, lastCall.self, lastCall.url)

\* C12: when closest_prefix(e, url) finds nothing, quantify_with_closest(e, url)
\* returns None and the document is exactly as before; when it finds a
\* prefix, the call returns it and nothing but the full name of e differs
\* from the document before.  The call returns whenever the parent chain
\* of e ends.
C12_QuantifyFrame ==
    lastCall.op = "quantify_with_closest" =>
        /\ ChainEnds(pre, lastCall.self) => status = "running"
        /\ status # "aborted"
        /\ status = "hung" => Doc = pre
        /\ status = "running" =>
            IF Closest(pre, lastCall.self, lastCall.url) = None
            THEN ret = None /\ Doc = pre
            ELSE /\ ret = Closest(pre, lastCall.self, lastCall.url)
                 /\ Doc = [pre EXCEPT !.store[lastCall.self + 1].full_name =
                                        full_name(Doc, lastCall.self)]

\* no prefix was found for an element that has a prefix and a parent
C12_Witness ==
    /\ lastCall.op = "quantify_with_closest"
    /\ status = "running"
    /\ ret = None
    /\ prefix(pre, lastCall.self) = <<"p">>
    /\ is_some(parent(pre, lastCall.self))
    /\ namespace_decls(pre, unwrap(parent(pre, lastCall.self))) # EmptyMap

\* the numbers of steps up the parent chain of x at which e is met
StepsBelow(d, e, x) == {k \in 0..(Len(d.store) - 1) : AncestorAt(d, x, k) = Some(e)}

\* the subtree of e: e and the elements below it
Subtree(d, e) == {x \in Handles(d) : StepsBelow(d, e, x) # {}}

\* some element on the path from e down to x, both inclusive, declares pfx
PathDeclares(d, e, x, pfx) ==
    \E j \in 0..Nearest(StepsBelow(d, e, x)) :
        pfx \in DOMAIN namespace_decls(d, Ancestor(d, x, j))

\* the prefixes the subtree of e uses without declaring them on the way down
ExternalPrefixes(d, e) ==
    {prefix(d, x) : x \in {y \in Subtree(d, e) : ~PathDeclares(d, e, y, prefix(d, y))}}

\* C13: the keys of collect_external_namespace_decls(e) are exactly the
\* prefixes that some element of the subtree of e has as its own prefix
\* while no element on the path from e down to it, both inclusive, declares
\* it, and each key is mapped to namespace_for_prefix(e, key); a prefix an
\* element of the subtree both declares and uses is not a key.
C13_ExternalDecls ==
    (lastCall.op = "collect_external_namespace_decls" /\ status = "running") =>
        /\ DOMAIN ret = ExternalPrefixes(pre, lastCall.self)
        /\ \A pfx \in DOMAIN ret :
                namespace_for_prefix(pre, lastCall.self, pfx).ret = Some(ret[pfx])

\* no element of d is on a cycle of parent references
Acyclic(d) == \A x \in Handles(d) : ~OnCycle(d, x)

\* x uses a prefix that no element on its parent chain declares
UsesUndeclared(d, x) == Resolution(d, x, prefix(d, x)) = None

\* C14: on a document without cycles, collect_external_namespace_decls(e)
\* aborts if and only if some element of the subtree of e uses a prefix,
\* other than xml and xmlns, that no element on the parent chain from it up
\* to the root declares; when every used prefix is declared in scope of
\* its user the call returns.
C14_ExternalDeclsAbort ==
    (lastCall.op = "collect_external_namespace_decls" /\ Acyclic(pre)) =>
        /\ status # "hung"
        /\ status = "aborted" <=>
                \E x \in Subtree(pre, lastCall.self) : UsesUndeclared(pre, x)

\* the prefixes declared on e or on an element of its parent chain
DeclaredInScope(d, e) ==
    {pfx \in UNION {DOMAIN namespace_decls(d, x) : x \in Handles(d)} :
        Distances(d, e, LAMBDA a : pfx \in DOMAIN namespace_decls(d, a)) # {}}

\* the declarations in effect at e, the nearest one of each prefix
Applicable(d, e) ==
    [pfx \in DeclaredInScope(d, e) |->
        namespace_decls(d, Ancestor(d, e, Nearest(
            Distances(d, e, LAMBDA a : pfx \in DOMAIN namespace_decls(d, a)))))[pfx]]

QuantifiedChildren(d, e, nm, url) ==
    SelectSeq(child_elements(d, e), LAMBDA c : name(d, c) = nm /\ is_quantified(d, c, url))

\* C16: find_all_quantified(e, name, url) returns, in document order and
\* each once, exactly the child elements of e whose local name is name and
\* whose namespace is url; find_quantified(e, name, url) returns the first
\* of them, or None if there is none.
C16_FindQuantified ==
    /\ (lastCall.op = "find_all_quantified" /\ status = "running") =>
            ret = QuantifiedChildren(pre, lastCall.self, lastCall.str, lastCall.url)
    /\ (lastCall.op = "find_quantified" /\ status = "running") =>
            ret = IF QuantifiedChildren(pre, lastCall.self, lastCall.str, lastCall.url) = <<>>
                  THEN None
                  ELSE Some(QuantifiedChildren(pre, lastCall.self, lastCall.str,
                                               lastCall.url)[1])

----------------------------------------------------------------------------
(* Claims about the emptiness of the Document, under Spec *)

\* the Document holds no node: no element was allocated and the container has no child
NoNodes(d) == Len(d.store) = 1 /\ children(d, container) = <<>>

\* C20: is_empty() returns true if and only if the Document does not have any
\* nodes: true for a new Document, false once a node of any kind, an element
\* or a leaf, has been added to it.
C20_IsEmpty ==
    lastCall.op = "is_empty" => (ret <=> NoNodes(pre))

----------------------------------------------------------------------------
(* The reader of src/src/lib.rs.  Its Document keeps the top-level nodes   *)
(* in `nodes` and has no container; its store is empty until an element is *)
(* allocated.  The events are the ones of the XML codec (quick_xml), with  *)
(* decoded content: a name, a list of <<key, value>> attributes, a text.   *)

\* ReadOptions::default
ReadOptions(empty_text_node) == [empty_text_node |-> empty_text_node]
DefaultReadOptions == ReadOptions(TRUE)

\* Document::new of lib.rs
NewReadDocument ==
    [read_opts |-> DefaultReadOptions, counter |-> 0, store |-> <<>>, nodes |-> <<>>]

\* the Document of lib.rs of the current state
ReadDoc == [read_opts |-> read_opts, counter |-> counter, store |-> store, nodes |-> docNodes]

\* Node::Decl
DeclNode(version, encoding, standalone) ==
    [kind |-> "Decl", elem |-> -1, text |-> EmptyStr,
     version |-> version, encoding |-> encoding, standalone |-> standalone]

\* quick_xml::events::Event
Event(kind, nm, attributes, text, version, encoding, standalone) ==
    [kind |-> kind, name |-> nm, attributes |-> attributes, text |-> text,
     version |-> version, encoding |-> encoding, standalone |-> standalone]
StartEvent(nm, attributes) == Event("Start", nm, attributes, EmptyStr, "", None, None)
EndEvent(nm) == Event("End", nm, <<>>, EmptyStr, "", None, None)
EmptyEvent(nm, attributes) == Event("Empty", nm, attributes, EmptyStr, "", None, None)
LeafEvent(kind, text) == Event(kind, EmptyStr, <<>>, text, "", None, None)
DeclEvent(version, encoding, standalone) ==
    Event("Decl", EmptyStr, <<>>, EmptyStr, version, encoding, standalone)
\* Err(e): the codec could not decode its input
ErrEvent == Event("Err", EmptyStr, <<>>, EmptyStr, "", None, None)

LeafKinds == {"Text", "Comment", "CData", "PI", "DocType"}

\* Document::push_node of lib.rs
push_node(d, node) ==
    IF node.kind = "Element" /\ has_parent(d, node.elem)
    THEN Outcome(d, "HasAParent", FALSE)
    ELSE Outcome([d EXCEPT !.nodes = Append(@, node)], "Ok", FALSE)

\* str::strip_prefix("xmlns:")
XmlnsColon == XmlnsPrefix \o <<Colon>>
strip_prefix_xmlns(key) ==
    IF Len(key) >= Len(XmlnsColon) /\ SubSeq(key, 1, Len(XmlnsColon)) = XmlnsColon
    THEN Some(SubSeq(key, Len(XmlnsColon) + 1, Len(key)))
    ELSE None

\* Document::handle_bytes_start, the loop over ev.attributes():
\* <<attributes, namespaces>> after the attributes from position i on
RECURSIVE attributes_loop(_, _, _, _)
attributes_loop(attrs, i, attributes, namespaces) ==
    IF i > Len(attrs)
    THEN <<attributes, namespaces>>
    ELSE LET key == attrs[i][1]
             value == attrs[i][2]
         IN  IF key = XmlnsPrefix
             THEN attributes_loop(attrs, i + 1, attributes, MapInsert(namespaces, EmptyStr, value))
             ELSE IF is_some(strip_prefix_xmlns(key))
             THEN attributes_loop(attrs, i + 1, attributes,
                                  MapInsert(namespaces, unwrap(strip_prefix_xmlns(key)), value))
             ELSE attributes_loop(attrs, i + 1, MapInsert(attributes, key, value), namespaces)

\* HashMap::extend
MapExtend(m, n) == [x \in (DOMAIN m) \cup (DOMAIN n) |-> IF x \in DOMAIN n THEN n[x] ELSE m[x]]

\* mutant: every node is pushed at the top level
handle_push_node_TopLevel(d, element_stack, node) ==
    Outcome([d EXCEPT !.nodes = Append(@, node)], "Ok", FALSE)

\* Document::handle_push_node: under the top of the stack, or at the top level
handle_push_node(d, element_stack, node) ==
    IF element_stack # <<>>
    THEN LET o == push_child(d, element_stack[Len(element_stack)], node)
         IN  IF o.ret = "Ok" THEN o ELSE Outcome(d, o.ret, TRUE)
    ELSE Outcome([d EXCEPT !.nodes = Append(@, node)], "Ok", FALSE)

\* Document::handle_bytes_start: the new element is allocated, filled and pushed
handle_bytes_start(d, element_stack, ev) ==
    LET n == new(d, ev.name)
        element == n.ret
        maps == attributes_loop(ev.attributes, 1, data(n.doc, element).attributes, EmptyMap)
        d1 == [n.doc EXCEPT !.store[element + 1].attributes = maps[1],
                            !.store[element + 1].namespace_decls = MapExtend(@, maps[2])]
        o == handle_push_node(d1, element_stack, ElementNode(element))
    IN  Outcome(o.doc, element, o.panic)

\* Document::read, the End arm: the popped element gets an empty text child
end_element(d, element_stack) ==
    IF d.read_opts.empty_text_node /\ element_stack # <<>>
       /\ ~has_children(d, element_stack[Len(element_stack)])
    THEN push_child(d, element_stack[Len(element_stack)], Text(EmptyStr)).doc
    ELSE d

\* Vec::pop
Pop(v) == IF v = <<>> THEN v ELSE SubSeq(v, 1, Len(v) - 1)

\* Document::read, the loop from the i-th event on; the end of the events is Eof.
\* The Outcome carries the stack as it was when the loop returned.
RECURSIVE read_loop(_, _, _, _)
read_loop(d, element_stack, events, i) ==
    IF i > Len(events)
    THEN [Outcome(d, "Ok", FALSE) EXCEPT !.ret = <<"Ok", element_stack>>]
    ELSE LET ev == events[i]
         IN  CASE ev.kind = "Start" ->
                    LET o == handle_bytes_start(d, element_stack, ev)
                    IN  IF o.panic
                        THEN Outcome(o.doc, <<"panicked", element_stack>>, TRUE)
                        ELSE read_loop(o.doc, Append(element_stack, o.ret), events, i + 1)
               [] ev.kind = "End" ->
                    read_loop(end_element(d, element_stack), Pop(element_stack), events, i + 1)
               [] ev.kind = "Empty" ->
                    LET o == handle_bytes_start(d, element_stack, ev)
                    IN  IF o.panic
                        THEN Outcome(o.doc, <<"panicked", element_stack>>, TRUE)
                        ELSE read_loop(o.doc, element_stack, events, i + 1)
               [] ev.kind \in LeafKinds ->
                    LET o == handle_push_node(d, element_stack, Leaf(ev.kind, ev.text))
                    IN  IF o.panic
                        THEN Outcome(o.doc, <<"panicked", element_stack>>, TRUE)
                        ELSE read_loop(o.doc, element_stack, events, i + 1)
               [] ev.kind = "Decl" ->
                    LET o == handle_push_node(d, element_stack,
                                              DeclNode(ev.version, ev.encoding, ev.standalone))
                    IN  IF o.panic
                        THEN Outcome(o.doc, <<"panicked", element_stack>>, TRUE)
                        ELSE read_loop(o.doc, element_stack, events, i + 1)
               [] ev.kind = "Err" ->
                    Outcome(d, <<"MalformedXML", element_stack>>, FALSE)

\* Document::read
read(d, events) == read_loop(d, <<>>, events, 1)

\* Document::read_str / read_reader
read_str(d, events) ==
    IF d.store # <<>>
    THEN Outcome(d, <<"NotEmpty", <<>>>>, FALSE)
    ELSE read(d, events)

----------------------------------------------------------------------------
(* The writer of src/src/document.rs, as the events it gives to the codec *)

\* WriteOptions (the indentation does not change the events)
WriteOptions(write_decl) == [write_decl |-> write_decl]
DefaultWriteOptions == WriteOptions(TRUE)

\* Document.version and Document.standalone: set by Document::new and never assigned
DocumentVersion == "1.0"
DocumentStandalone == FALSE

\* Document::write_decl
write_decl ==
    DeclEvent(DocumentVersion, Some("UTF-8"), IF DocumentStandalone THEN Some("yes") ELSE None)

\* mutant: the keys in descending order
RECURSIVE btree_keys_Descending(_)
btree_keys_Descending(S) ==
    IF S = {}
    THEN <<>>
    ELSE LET m == CHOOSE x \in S : \A y \in S \ {x} : StrLess(y, x)
         IN  <<m>> \o btree_keys_Descending(S \ {m})

\* the iteration order of a BTreeMap: the keys in ascending order
RECURSIVE btree_keys(_)
btree_keys(S) ==
    IF S = {}
    THEN <<>>
    ELSE LET m == CHOOSE x \in S : \A y \in S \ {x} : StrLess(x, y)
         IN  <<m>> \o btree_keys(S \ {m})

\* Document::write_element, the attributes pushed to the start tag
start_attributes(d, element) ==
    LET attributes == data(d, element).attributes
        namespaces == namespace_decls(d, element)
        akeys == btree_keys(DOMAIN attributes)
        nkeys == btree_keys(DOMAIN namespaces)
    IN  [i \in 1..Len(akeys) |-> <<akeys[i], attributes[akeys[i]]>>]
            \o [i \in 1..Len(nkeys) |->
                   <<IF nkeys[i] = EmptyStr THEN XmlnsPrefix ELSE XmlnsColon \o nkeys[i],
                     namespaces[nkeys[i]]>>]

\* Document::write_nodes from the i-th node on and Document::write_element:
\* the events written, and whether the recursion overflowed the stack
RECURSIVE write_nodes(_, _, _, _), write_element(_, _, _)
write_nodes(d, ns, i, fuel) ==
    IF i > Len(ns)
    THEN [events |-> <<>>, overflow |-> FALSE]
    ELSE LET node == ns[i]
             first == IF node.kind = "Element"
                      THEN write_element(d, node.elem, fuel)
                      ELSE [events |-> <<LeafEvent(node.kind, node.text)>>, overflow |-> FALSE]
         IN  IF first.overflow
             THEN first
             ELSE LET rest == write_nodes(d, ns, i + 1, fuel)
                  IN  [events |-> first.events \o rest.events, overflow |-> rest.overflow]
\* mutant: an element without children is written as a start and an end tag
write_element_NoEmpty(d, element, fuel) ==
    IF fuel = 0
    THEN [events |-> <<>>, overflow |-> TRUE]
    ELSE LET inner == write_nodes(d, children(d, element), 1, fuel - 1)
         IN  [events |-> <<StartEvent(full_name(d, element), start_attributes(d, element))>>
                            \o inner.events
                            \o (IF inner.overflow THEN <<>> ELSE <<EndEvent(full_name(d, element))>>),
              overflow |-> inner.overflow]
write_element(d, element, fuel) ==
    IF fuel = 0
    THEN [events |-> <<>>, overflow |-> TRUE]
    ELSE IF has_children(d, element)
    THEN LET inner == write_nodes(d, children(d, element), 1, fuel - 1)
         IN  [events |-> <<StartEvent(full_name(d, element), start_attributes(d, element))>>
                            \o inner.events
                            \o (IF inner.overflow THEN <<>> ELSE <<EndEvent(full_name(d, element))>>),
              overflow |-> inner.overflow]
    ELSE [events |-> <<EmptyEvent(full_name(d, element), start_attributes(d, element))>>,
          overflow |-> FALSE]

\* Document::write_with_opts over the top-level nodes ns
write_with_opts(d, ns, opts) ==
    LET body == write_nodes(d, ns, 1, Len(d.store))
    IN  [events |-> (IF opts.write_decl THEN <<write_decl>> ELSE <<>>) \o body.events,
         overflow |-> body.overflow]

----------------------------------------------------------------------------
(* The state machine of the reader *)

MaxEvents == 3
MaxReadNodes == 1

ReadNames == {<<"a">>}
\* attribute lists of a start tag: plain attributes out of order, and declarations
AttributeLists ==
    { <<>>,
      << <<XmlnsColon \o <<"p">>, "u">>, <<<<"c">>, "1">>, <<<<"b">>, "2">> >>,
      << <<XmlnsPrefix, "v">> >> }
\* the events the codec delivers: text is trimmed and never empty
Events ==
    {StartEvent(n, a) : n \in ReadNames, a \in AttributeLists}
        \cup {EndEvent(n) : n \in ReadNames}
        \cup {EmptyEvent(n, <<>>) : n \in ReadNames}
        \cup {LeafEvent("Text", <<"t">>), LeafEvent("Comment", <<"c">>)}
        \cup {DeclEvent("1.0", Some("UTF-8"), None), ErrEvent}

\* the names of the elements open after the first i events
RECURSIVE OpenNames(_, _)
OpenNames(x, i) ==
    IF i = 0
    THEN <<>>
    ELSE LET o == OpenNames(x, i - 1)
         IN  CASE x[i].kind = "Start" -> Append(o, x[i].name)
               [] x[i].kind = "End" -> Pop(o)
               [] OTHER -> o

\* what Reader::read_event can deliver: an end tag closes the open element of
\* its name (check_end_names), and nothing follows an error
Deliverable(x) ==
    \A i \in 1..Len(x) :
        /\ x[i].kind = "End" =>
            LET o == OpenNames(x, i - 1) IN o # <<>> /\ o[Len(o)] = x[i].name
        /\ x[i].kind = "Err" => i = Len(x)

RECURSIVE Streams(_)
Streams(n) ==
    IF n = 0
    THEN {<<>>}
    ELSE LET S == Streams(n - 1)
         IN  S \cup {Append(x, e) : x \in {y \in S : Len(y) = n - 1}, e \in Events}
EventStreams == {x \in Streams(MaxEvents) : Deliverable(x)}

\* nodes given to push_node
ReadNodes ==
    {ElementNode(e) : e \in 0..(Len(store) - 1)}
        \cup {Text(<<"t">>), Leaf("Comment", <<"c">>)}

InitRead ==
    /\ counter = NewReadDocument.counter
    /\ store = NewReadDocument.store
    /\ docNodes = NewReadDocument.nodes
    /\ read_opts = NewReadDocument.read_opts
    /\ input = <<>>
    /\ status = "running"
    /\ lastCall = Unobserved
    /\ result = <<"-", "-">>
    /\ pre = NewReadDocument

\* One call on the Document of lib.rs
ApplyRead(call, o, x) ==
    /\ counter' = o.doc.counter
    /\ store' = o.doc.store
    /\ docNodes' = o.doc.nodes
    /\ read_opts' = o.doc.read_opts
    /\ status' = IF o.panic THEN "aborted" ELSE "running"
    /\ \/ /\ lastCall' = call
          /\ result' = <<IF o.panic THEN "panicked" ELSE call.op, o.ret>>
          /\ pre' = ReadDoc
          /\ input' = x
       \/ UNCHANGED <<lastCall, result, pre, input>>

\* doc.read_opts.empty_text_node = b
SetReadOpts ==
    /\ Live
    /\ \E b \in BOOLEAN :
        /\ b # read_opts.empty_text_node
        /\ read_opts' = ReadOptions(b)
        /\ UNCHANGED <<counter, store, docNodes, input, status, lastCall, result, pre>>

\* Element::new on the Document
ReadNewElement ==
    /\ Live
    /\ Len(store) + Len(docNodes) < MaxReadNodes
    /\ \E fname \in ReadNames :
        ApplyRead(Call("new", -1, NoNode, -1, fname, ""), new(ReadDoc, fname), <<>>)

PushNode ==
    /\ Live
    /\ \E node \in ReadNodes :
        /\ Len(store) + Len(docNodes) < MaxReadNodes + (IF node.kind = "Element" THEN 1 ELSE 0)
        /\ ApplyRead(Call("push_node", -1, node, -1, EmptyStr, ""), push_node(ReadDoc, node), <<>>)

ReadStr ==
    /\ Live
    /\ \E x \in EventStreams :
        /\ ApplyRead(Call("read_str", -1, NoNode, -1, EmptyStr, ""), read_str(ReadDoc, x), x)
        /\ lastCall' = Call("read_str", -1, NoNode, -1, EmptyStr, "")

NextRead ==
    \/ SetReadOpts
    \/ ReadNewElement
    \/ PushNode
    \/ ReadStr

SpecRead == InitRead /\ [][NextRead]_vars

----------------------------------------------------------------------------
(* Claims about the reader and the writer, under SpecRead *)

\* the call on record is a read that returned
ReadReturned == lastCall.op = "read_str" /\ result[1] = "read_str"

\* every element is closed and the codec reported no error
Balanced(x) == OpenNames(x, Len(x)) = <<>> /\ \A i \in 1..Len(x) : x[i].kind # "Err"
\* the positions of the top-level events
TopLevel(x) == {i \in 1..Len(x) : OpenNames(x, i - 1) = <<>>}
\* a document: balanced, with one root element and no text beside it
WellFormed(x) ==
    /\ Balanced(x)
    /\ Cardinality({i \in TopLevel(x) : x[i].kind \in {"Start", "Empty"}}) = 1
    /\ \A i \in TopLevel(x) : x[i].kind # "Text"
DeclFree(x) == \A i \in 1..Len(x) : x[i].kind # "Decl"

\* the events with the order of the attributes forgotten
Unordered(x) ==
    [i \in 1..Len(x) |->
        [x[i] EXCEPT !.attributes = {x[i].attributes[j] : j \in 1..Len(x[i].attributes)}]]
\* the events the codec delivers when it reads what was written: an empty text is no event
Reread(x) == SelectSeq(x, LAMBDA e : ~(e.kind = "Text" /\ e.text = EmptyStr))
\* <tag></tag> taken for <tag/>
RECURSIVE Collapsed(_, _)
Collapsed(x, i) ==
    IF i > Len(x)
    THEN <<>>
    ELSE IF x[i].kind = "Start" /\ i < Len(x) /\ x[i + 1].kind = "End"
    THEN <<[x[i] EXCEPT !.kind = "Empty"]>> \o Collapsed(x, i + 2)
    ELSE <<x[i]>> \o Collapsed(x, i + 1)
\* the events up to the order of the attributes and the empty_text_node setting
Canonical(x, opts) ==
    IF opts.empty_text_node
    THEN Unordered(Reread(x))
    ELSE Unordered(Collapsed(Reread(x), 1))

\* C17: for a well-formed stream of events x read into a new Document, what
\* write emits equals x up to the order of the attributes and declarations
\* and the empty_text_node setting, and reading what was written again gives
\* the same tree (names, attribute and namespace maps, children sequences).
\* Stated for the streams without a declaration event.
C17_RoundTrip ==
    (ReadReturned /\ pre.store = <<>> /\ pre.nodes = <<>> /\ WellFormed(input) /\ DeclFree(input))
        => LET w == write_with_opts(ReadDoc, ReadDoc.nodes, DefaultWriteOptions)
               again == read_str(pre, Reread(w.events))
           IN  /\ ~w.overflow
               /\ Canonical(w.events, read_opts) = Canonical(input, read_opts)
               /\ again.doc.store = store
               /\ again.doc.nodes = docNodes

\* the Document holds data: a top-level node or an allocated element
HoldsData(d) == d.nodes # <<>> \/ d.store # <<>>

\* C18: a read on a Document that already holds data, a top-level node of any
\* kind or an allocated element, fails with NotEmpty and reads no event: the
\* Document is left as it was.
C18_NotEmpty ==
    (lastCall.op = "read_str" /\ HoldsData(pre))
        => result[1] = "read_str" /\ ret[1] = "NotEmpty" /\ ReadDoc = pre

\* the node kinds of a sequence of nodes
NodeKinds(ns) == {ns[i].kind : i \in 1..Len(ns)}

\* C19: after a read, no top-level node and no child of any element is a
\* declaration node.
C19_NoDeclNode ==
    lastCall.op = "read_str"
        => /\ "Decl" \notin NodeKinds(docNodes)
           /\ \A e \in Handles(ReadDoc) : "Decl" \notin NodeKinds(children(ReadDoc, e))

----------------------------------------------------------------------------
(* Further claims about namespace resolution, under SpecNs *)

\* a default namespace with a non-empty URL is in effect at e
DefaultInEffect(d, e) == unwrap(Resolution(d, e, EmptyStr)) # ""

\* C21: for the empty URL ("no namespace") closest_prefix(e, "") returns
\* None whenever a default namespace with a non-empty URL is in effect at e
\* and the empty prefix otherwise; it never returns a non-empty prefix.
C21_ClosestPrefixOfNoNamespace ==
    (lastCall.op = "closest_prefix" /\ lastCall.url = "" /\ result[1] = "closest_prefix")
        => ret = (IF DefaultInEffect(pre, lastCall.self) THEN None ELSE Some(EmptyStr))

\* C29: the result of collect_applicable_namespace_decls(e) holds the empty
\* prefix only with a non-empty namespace URL: no entry maps the empty prefix
\* to the empty URL, whatever is declared on e and its ancestors.
C29_NoEmptyDefault ==
    (lastCall.op = "collect_applicable_namespace_decls"
            /\ result[1] = "collect_applicable_namespace_decls")
        => ~(EmptyStr \in DOMAIN ret /\ ret[EmptyStr] = "")

\* the calls that walk up the parent chain
WalkOps ==
    {"namespace_for_prefix", "closest_prefix", "top_parent",
     "collect_applicable_namespace_decls", "collect_namespace_prefixes"}

\* C30: on every document built through the mutation API, every walk up
\* the parent chain ends: namespace_for_prefix, closest_prefix, top_parent,
\* collect_applicable_namespace_decls and the recursion of
\* collect_namespace_prefixes reach an element without a parent and return.
C30_WalksTerminate ==
    lastCall.op \in WalkOps => status = "running"

----------------------------------------------------------------------------
(* Further claims about the tree mutation API, under Spec *)

\* C27: insert_child(parent, index, node) with index > children.len() aborts
\* for every kind of node: it returns neither Ok nor a recoverable error
\* (HasAParent, ContainerCannotMove), and the parent reference of the node
\* is left as it was.
C27_InsertOutOfRange ==
    (lastCall.op = "insert_child" /\ lastCall.index > Len(children(pre, lastCall.self)))
        => /\ status = "aborted"
           /\ lastCall.node.kind = "Element"
                => parent(Doc, lastCall.node.elem) = parent(pre, lastCall.node.elem)

\* v with x put at the 0-based position i: what is before i stays, what is
\* at or after i moves one place up
InsertedAt(v, w, i, x) ==
    /\ Len(w) = Len(v) + 1
    /\ w[i + 1] = x
    /\ \A j \in 1..Len(v) : IF j <= i THEN w[j] = v[j] ELSE w[j + 1] = v[j]

\* the record of h as an attach of node under p at position i leaves it
Attached(d, h, p, i, node) ==
    LET old == data(pre, h)
        now == data(d, h)
    IN  /\ now.full_name = old.full_name
        /\ now.attributes = old.attributes
        /\ now.namespace_decls = old.namespace_decls
        /\ now.parent = (IF node.kind = "Element" /\ node.elem = h THEN Some(p) ELSE old.parent)
        /\ IF h = p THEN InsertedAt(old.children, now.children, i, node)
                    ELSE now.children = old.children

\* C22: a successful push_child(parent, node) makes node the last child of
\* parent, a successful insert_child(parent, i, node) makes it the child at
\* index i with the other children in their order; an element node gets
\* parent as its parent; no other children sequence, parent reference, name,
\* attribute or namespace map changes, and no record is added.
C22_AttachFrame ==
    (lastCall.op \in AttachOps /\ result = <<lastCall.op, "Ok">>)
        => LET p == lastCall.self
               i == IF lastCall.op = "insert_child" THEN lastCall.index
                    ELSE Len(children(pre, p))
           IN  /\ counter = pre.counter
               /\ Len(store) = Len(pre.store)
               /\ \A h \in Handles(pre) : Attached(Doc, h, p, i, lastCall.node)

\* an element was inserted between two children
C22_Witness ==
    /\ lastCall.op = "insert_child"
    /\ result = <<"insert_child", "Ok">>
    /\ lastCall.node.kind = "Element"
    /\ lastCall.index > 0
    /\ lastCall.index < Len(children(pre, lastCall.self))
    /\ children(Doc, lastCall.self)[lastCall.index + 1] = lastCall.node

\* the builder the call on record consumed
Builder == input[1]

\* C28: finish allocates exactly one new element with the full name, the
\* attributes and the namespace declarations of the builder and no parent;
\* its children are one Text node with the given text when a text content
\* was given, the empty string included, and none otherwise.  push_to also
\* makes it the last child of the given parent, the container included, and
\* that parent its parent.  The records that existed change in nothing else.
C28_Builder ==
    lastCall.op \in {"finish", "builder_push_to"}
        => LET e == ret
               p == lastCall.self
               attach == lastCall.op = "builder_push_to"
           IN  /\ result[1] = lastCall.op
               /\ e = Len(pre.store)
               /\ Len(store) = Len(pre.store) + 1
               /\ full_name(Doc, e) = Builder.full_name
               /\ data(Doc, e).attributes = Builder.attributes
               /\ namespace_decls(Doc, e) = Builder.namespace_decls
               /\ children(Doc, e) = (IF is_some(Builder.text_content)
                                      THEN <<Text(unwrap(Builder.text_content))>>
                                      ELSE <<>>)
               /\ parent(Doc, e) = (IF attach THEN Some(p) ELSE None)
               /\ \A h \in Handles(pre) :
                    data(Doc, h) =
                        (IF attach /\ h = p
                         THEN [data(pre, h) EXCEPT !.children = Append(@, ElementNode(e))]
                         ELSE data(pre, h))

\* a builder with an attribute, a declaration and the empty text was pushed
\* to a child of the container
C28_Witness ==
    /\ lastCall.op = "builder_push_to"
    /\ Builder.attributes # EmptyMap
    /\ Builder.namespace_decls # EmptyMap
    /\ Builder.text_content = Some(EmptyStr)
    /\ parent(pre, lastCall.self) = Some(container)
    /\ children(Doc, ret) = <<Text(EmptyStr)>>

----------------------------------------------------------------------------
(* Claims about the tree the reader builds, under SpecRead *)

\* the positions of the start tags open after the first i events
RECURSIVE OpenPositions(_, _)
OpenPositions(x, i) ==
    IF i = 0
    THEN <<>>
    ELSE LET o == OpenPositions(x, i - 1)
         IN  CASE x[i].kind = "Start" -> Append(o, i)
               [] x[i].kind = "End" -> Pop(o)
               [] OTHER -> o

\* the position of the start tag an event is directly inside, 0 at the top level
Enclosing(x, j) ==
    LET o == OpenPositions(x, j - 1) IN IF o = <<>> THEN 0 ELSE o[Len(o)]

\* the events that make an element, and the handle of the one made at position i
\* when the store was empty before the read
Creating(x) == {i \in 1..Len(x) : x[i].kind \in {"Start", "Empty"}}
HandleAt(x, i) == Cardinality({j \in Creating(x) : j < i})

\* the node the event at position j becomes
NodeAt(x, j) ==
    IF j \in Creating(x) THEN ElementNode(HandleAt(x, j))
    ELSE IF x[j].kind = "Decl" THEN DeclNode(x[j].version, x[j].encoding, x[j].standalone)
    ELSE Leaf(x[j].kind, x[j].text)

\* the nodes of the events directly inside the start tag at position i, in order
NodesInside(x, i) ==
    LET js == SelectSeq([j \in 1..Len(x) |-> j],
                        LAMBDA j : Enclosing(x, j) = i /\ x[j].kind \notin {"End", "Err"})
    IN  [k \in 1..Len(js) |-> NodeAt(x, js[k])]

\* the children that come from events: all but an empty text
FromEvents(ns) == SelectSeq(ns, LAMBDA n : ~(n.kind = "Text" /\ n.text = EmptyStr))

Closed(x, i) ==
    /\ x[i].kind = "Start"
    /\ \A k \in DOMAIN OpenPositions(x, Len(x)) : OpenPositions(x, Len(x))[k] # i

\* C24: an element popped by an End event receives one empty Text child
\* exactly when empty_text_node is on and it has no children at that moment;
\* an element of an Empty event never receives one.  So after a read that
\* succeeded, an element has no children only if it came from an Empty event
\* or the option is off.
C24_EmptyTextNode ==
    (lastCall.op = "read_str" /\ pre.store = <<>> /\ result[1] = "read_str")
        => LET x == input
               opt == pre.read_opts.empty_text_node
           IN  \A i \in Creating(x) :
                 LET kids == children(ReadDoc, HandleAt(x, i))
                     inside == IF x[i].kind = "Start" THEN NodesInside(x, i) ELSE <<>>
                 IN  /\ kids = inside \o (IF opt /\ Closed(x, i) /\ inside = <<>>
                                           THEN <<Text(EmptyStr)>> ELSE <<>>)
                     /\ (ret[1] = "Ok" /\ kids = <<>>) => (x[i].kind = "Empty" \/ ~opt)

----------------------------------------------------------------------------
(* The state machine of the writer *)

MaxWriteElems == 2

\* the inputs of the writer specification
WriteNames == {<<"a">>, <<"b">>}
WriteAttributes == MapInsert(MapInsert(EmptyMap, <<"c">>, "1"), <<"b">>, "2")
WriteDecls == MapInsert(MapInsert(EmptyMap, <<"p">>, "u"), EmptyStr, "v")
WriteBuilders ==
    {ElementBuilder(fname, EmptyMap, EmptyMap, None) : fname \in WriteNames}
        \cup {ElementBuilder(fname, WriteAttributes, WriteDecls, None) : fname \in WriteNames}
WriteNodes == {Leaf(kind, t) : kind \in {"Text", "Comment"}, t \in TextContents}

\* one call that builds the Document to write; it is not put on record
Build(o) ==
    /\ counter' = o.doc.counter
    /\ store' = o.doc.store
    /\ status' = IF o.hangs THEN "hung" ELSE IF o.panic THEN "aborted" ELSE "running"
    /\ UNCHANGED <<lastCall, result, pre, docNodes, read_opts, input>>

WriteBuilderPushTo ==
    /\ Live
    /\ Len(store) - 1 < MaxWriteElems
    /\ \E b \in WriteBuilders, p \in Handles(Doc) : Build(builder_push_to(Doc, b, p))

WritePushChild ==
    /\ Live
    /\ \E self \in Handles(Doc), node \in WriteNodes :
        /\ CanTake(node)
        /\ Build(push_child(Doc, self, node))

\* Document::write_with_opts, put on record with the options it was given
Write ==
    /\ Live
    /\ \E opts \in {WriteOptions(TRUE), WriteOptions(FALSE)} :
        LET w == write_with_opts(Doc, children(Doc, container), opts)
        IN  /\ status' = IF w.overflow THEN "aborted" ELSE "running"
            /\ lastCall' = Call("write", container, NoNode, -1, EmptyStr, "")
            /\ result' = <<IF w.overflow THEN "panicked" ELSE "write", w.events>>
            /\ pre' = Doc
            /\ input' = <<opts>>
            /\ UNCHANGED <<counter, store, docNodes, read_opts>>

NextWrite ==
    \/ WriteBuilderPushTo
    \/ WritePushChild
    \/ Write

SpecWrite == Init /\ [][NextWrite]_vars

----------------------------------------------------------------------------
(* Claims about the writer, under SpecWrite *)

\* the call on record is a write that returned
WriteReturned == lastCall.op = "write" /\ result[1] = "write"

\* the events written after the declaration
Body == IF input[1].write_decl THEN Tail(ret) ELSE ret

\* the elements below the nodes ns in document order
RECURSIVE DocumentOrder(_, _, _)
DocumentOrder(d, ns, fuel) ==
    IF ns = <<>> \/ fuel = 0
    THEN <<>>
    ELSE (IF Head(ns).kind = "Element"
          THEN <<Head(ns).elem>> \o DocumentOrder(d, children(d, Head(ns).elem), fuel - 1)
          ELSE <<>>)
            \o DocumentOrder(d, Tail(ns), fuel)

\* the elements the write visits, in document order
Written == DocumentOrder(pre, children(pre, container), Len(pre.store))

\* the positions of the events that open or make an element, in order
Made(x) == SelectSeq([j \in 1..Len(x) |-> j], LAMBDA j : j \in Creating(x))

\* the events directly inside position i of x are those of the nodes ns, in
\* order: an element's own first event, a leaf's one event of its kind
Mirrors(x, i, ns) ==
    LET js == SelectSeq([j \in 1..Len(x) |-> j],
                        LAMBDA j : Enclosing(x, j) = i /\ x[j].kind # "End")
    IN  /\ Len(js) = Len(ns)
        /\ \A k \in 1..Len(ns) :
              IF ns[k].kind = "Element"
              THEN /\ js[k] \in Creating(x)
                   /\ Written[HandleAt(x, js[k]) + 1] = ns[k].elem
              ELSE x[js[k]] = LeafEvent(ns[k].kind, ns[k].text)

\* C25: the writer emits the events depth-first from the children of the
\* container, in children order: an element without children is one Empty
\* event; an element with children is a Start event, the events of its
\* children in order, and an End event of the same full name; a leaf is one
\* event of its kind.  The stream is balanced and properly nested, and the
\* container produces no event.
C25_DepthFirst ==
    WriteReturned =>
        /\ input[1].write_decl => (ret # <<>> /\ ret[1] = write_decl)
        /\ \A j \in 1..Len(Body) : Body[j].kind # "Decl"
        /\ Deliverable(Body) /\ Balanced(Body)
        /\ Len(Made(Body)) = Len(Written)
        /\ Mirrors(Body, 0, children(pre, container))
        /\ \A k \in 1..Len(Written) :
              LET e == Written[k]
                  i == Made(Body)[k]
              IN  /\ Body[i].name = full_name(pre, e)
                  /\ Body[i].kind = (IF children(pre, e) = <<>> THEN "Empty" ELSE "Start")
                  /\ Mirrors(Body, i, children(pre, e))

\* an element with an element of another name and a comment in it was written
C25_Witness ==
    /\ WriteReturned
    /\ Len(Body) = 4
    /\ Body[1].kind = "Start" /\ Body[2].kind = "Empty"
    /\ Body[3].kind = "Comment" /\ Body[4].kind = "End"
    /\ Body[1].name # Body[2].name
    /\ Body[4].name = Body[1].name

\* the prefix an xmlns attribute declares
DeclaredPrefix(nm) == IF nm = XmlnsPrefix THEN EmptyStr ELSE SubSeq(nm, Len(XmlnsColon) + 1, Len(nm))

\* C26: for each element written, the attributes come first, in ascending
\* order of their names, each with its value, and the namespace declarations
\* follow, in ascending order of their prefixes, each with its URL; equal
\* mappings therefore give the same events, whatever the order of insertion.
C26_SortedAttributes ==
    WriteReturned =>
        /\ Len(Made(Body)) = Len(Written)
        /\ \A k \in 1..Len(Written) :
              LET at == Body[Made(Body)[k]].attributes
                  A == data(pre, Written[k]).attributes
                  N == namespace_decls(pre, Written[k])
                  na == Cardinality(DOMAIN A)
                  nn == Cardinality(DOMAIN N)
              IN  /\ Len(at) = na + nn
                  /\ \A j \in 1..na : at[j][1] \in DOMAIN A /\ at[j][2] = A[at[j][1]]
                  /\ \A j \in 1..(na - 1) : StrLess(at[j][1], at[j + 1][1])
                  /\ \A j \in (na + 1)..(na + nn) :
                        /\ DeclaredPrefix(at[j][1]) \in DOMAIN N
                        /\ at[j][1] = (IF DeclaredPrefix(at[j][1]) = EmptyStr THEN XmlnsPrefix
                                       ELSE XmlnsColon \o DeclaredPrefix(at[j][1]))
                        /\ at[j][2] = N[DeclaredPrefix(at[j][1])]
                  /\ \A j \in (na + 1)..(na + nn - 1) :
                        StrLess(DeclaredPrefix(at[j][1]), DeclaredPrefix(at[j + 1][1]))

\* an element with two attributes and two declarations was written
C26_Witness ==
    /\ WriteReturned
    /\ Body # <<>>
    /\ Body[1].attributes = << <<<<"b">>, "2">>, <<<<"c">>, "1">>,
                               <<XmlnsPrefix, "v">>, <<XmlnsColon \o <<"p">>, "u">> >>

====
